---- MODULE Spec2Model ----
(***************************************************************************)
(* Facility Location with patterns (Facility_Location_Pattern.ipynb).      *)
(*                                                                         *)
(* The notebook is a sequence of cells run in document order: the data     *)
(* cell (data, power set P, asserts), Model(), the addVar loop, the cost   *)
(* loop, setObjective, the three constraint cells and optimize.  The three *)
(* constraint cells and optimize can be run again on the same model        *)
(* object, as in the recorded run.  Python tuples are sequences whose      *)
(* Python index j is position j+1; a Gurobi Var is its column index.       *)
(***************************************************************************)
EXTENDS Integers, Sequences, FiniteSets

VARIABLES
    I,          \* range of facilities
    J,          \* range of customers
    b,          \* tuple of demands
    f,          \* tuple of opening costs
    C,          \* tuple of capacities
    c,          \* dict (i, j) -> connection cost
    P,          \* tuple of patterns
    l,          \* dict (i, p) -> Var (column index)
    cost,       \* dict (i, p) -> pattern cost
    m,          \* the model object
    pc,         \* the cell to run next
    err,        \* the exception that stopped the run
    reruns,     \* constraint cells run again so far
    depth,      \* optimize: columns 0..depth-1 are decided
    ones,       \* optimize: decided columns set to 1
    closed,     \* optimize: the search below this node is over
    incumbent,  \* optimize: best objective found so far
    previous    \* status and objective of the solve before

vars == <<I, J, b, f, C, c, P, l, cost, m, pc, err, reruns, depth, ones,
          closed, incumbent, previous>>

(***************************************************************************)
(* Bounds of the instances the model is checked on.                        *)
(***************************************************************************)
MaxI == 2
MaxJ == 2
MaxUnits == 2
MaxPool == 4
MaxReruns == 2

\* an attribute that holds no value yet
None == 0 - 1

Max(S) == CHOOSE x \in S : \A y \in S : y <= x

RECURSIVE SumOver(_, _)
SumOver(S, g) ==
    IF S = {} THEN 0
    ELSE LET x == CHOOSE y \in S : TRUE IN g[x] + SumOver(S \ {x}, g)

RECURSIVE Flatten(_)
Flatten(ss) == IF ss = << >> THEN << >> ELSE Head(ss) \o Flatten(Tail(ss))

Elems(t) == {t[q] : q \in DOMAIN t}

\* range(n)
Range(n) == [q \in 1..n |-> q - 1]

\* sum(t[j] for j in p), summed left to right as Python does
RECURSIVE PySum(_, _)
PySum(t, p) == IF p = << >> THEN 0 ELSE t[Head(p) + 1] + PySum(t, Tail(p))

(***************************************************************************)
(* itertools.combinations(pool, r): the index tuples in the order the      *)
(* library yields them, each mapped through the pool.                      *)
(***************************************************************************)
RECURSIVE IndicesFrom(_, _, _)
IndicesFrom(indices, n, r) ==
    LET movable == {i \in 1..r : indices[i] # (i - 1) + n - r}
    IN  IF movable = {} THEN <<indices>>
        ELSE LET i == Max(movable)
                 next == [q \in 1..r |->
                            IF q < i THEN indices[q]
                            ELSE indices[i] + 1 + (q - i)]
             IN  <<indices>> \o IndicesFrom(next, n, r)

combinations(pool, r) ==
    LET n == Len(pool)
    IN  IF r > n THEN << >>
        ELSE LET idx == IndicesFrom(Range(r), n, r)
             IN  [q \in 1..Len(idx) |->
                    [e \in 1..r |-> pool[idx[q][e] + 1]]]

\* range(len(J)+1)
SizesShort(pool) == Range(Len(pool))
Sizes(pool) == Range(Len(pool) + 1)

\* tuple(chain.from_iterable(combinations(J, r) for r in range(len(J)+1)))
PowerSet(pool) ==
    LET sizes == Sizes(pool)
    IN  Flatten([q \in 1..Len(sizes) |-> combinations(pool, sizes[q])])

(***************************************************************************)
(* The data cell's asserts.                                                *)
(***************************************************************************)
ChecksPass ==
    /\ Len(J) = Len(b)
    /\ Len(I) = Len(f) /\ Len(f) = Len(C)
    /\ Cardinality(DOMAIN c) = Len(I) * Len(J)

Keys == {<<I[x], P[q]>> : x \in DOMAIN I, q \in DOMAIN P}

NoModel == [created |-> FALSE, numVars |-> 0, obj |-> << >>, constrs |-> << >>,
            status |-> "LOADED", objVal |-> None, dirty |-> FALSE]

\* m = Model('FacilityLocationWithPattern')
NewModel == [NoModel EXCEPT !.created = TRUE]

\* the addVar loop: columns are numbered in the order of the two loops, and a
\* key written twice keeps the Var written last
VarsOf(model) ==
    [key \in Keys |->
        LET x == Max({y \in DOMAIN I : I[y] = key[1]})
            q == Max({y \in DOMAIN P : P[y] = key[2]})
        IN  model.numVars + (x - 1) * Len(P) + (q - 1)]

\* cost[i, p]
CostOfFlat(i, p) ==
    IF Len(p) = 0 THEN 0
    ELSE PySum([q \in 1..Len(J) |-> c[<<i, q - 1>>]], p)
CostOfEmptyOpens(i, p) ==
    f[i + 1] + PySum([q \in 1..Len(J) |-> c[<<i, q - 1>>]], p)
CostOf(i, p) ==
    IF Len(p) = 0 THEN 0
    ELSE f[i + 1] + PySum([q \in 1..Len(J) |-> c[<<i, q - 1>>]], p)

\* c[i, j] raises KeyError for a key the dict does not hold
KeyMissing == \E key \in Keys : \E e \in Elems(key[2]) : <<key[1], e>> \notin DOMAIN c

\* quicksum(cost[i, p] * l[i, p] for i in I for p in P): coefficient per column
ObjectiveFirstFacility ==
    [col \in 0..(m.numVars - 1) |->
        SumOver({key \in DOMAIN l : l[key] = col},
                [key \in DOMAIN l |-> cost[<<I[1], key[2]>>]])]
Objective ==
    [col \in 0..(m.numVars - 1) |->
        SumOver({key \in DOMAIN l : l[key] = col}, cost)]

\* sum(b[j] for j in list(p)) > C[i]
ExceedsOrEqual(i, p) == PySum(b, p) >= C[i + 1]
ExceedsFirst(i, p) == PySum(b, p) > C[1]
Exceeds(i, p) == PySum(b, p) > C[i + 1]

\* a linear constraint: the columns of its left-hand side (each with
\* coefficient 1) and its right-hand side; every constraint is an equality
Row(cols, rhs) == [cols |-> cols, rhs |-> rhs]

\* for i in I: for p in P: if ...: m.addConstr(l[i, p] == 0)
CapacityRows ==
    LET pairs == Flatten([x \in DOMAIN I |->
                    [q \in DOMAIN P |-> <<I[x], P[q]>>]])
        Over(key) == Exceeds(key[1], key[2])
        fixed == SelectSeq(pairs, Over)
    IN  [q \in DOMAIN fixed |-> Row({l[fixed[q]]}, 0)]

\* for i in I: m.addConstr(quicksum(l[i, p] for p in P) == 1)
OnePatternRowsNonempty ==
    [x \in DOMAIN I |->
        Row({l[<<I[x], P[q]>>] : q \in {y \in DOMAIN P : P[y] # << >>}}, 1)]
OnePatternRows ==
    [x \in DOMAIN I |-> Row({l[<<I[x], P[q]>>] : q \in DOMAIN P}, 1)]

\* for j in J: m.addConstr(quicksum(l[i, p] for i in I for p in P if j in list(p)) == 1)
CoversAll(j, p) == TRUE
Covers(j, p) == j \in Elems(p)
CoverageRows ==
    [y \in DOMAIN J |->
        Row({l[<<I[x], P[q]>>] : <<x, q>> \in
                {z \in (DOMAIN I) \X (DOMAIN P) : Covers(J[y], P[z[2]])}}, 1)]

AddConstrsReplace(model, rs) ==
    [model EXCEPT !.constrs = rs, !.dirty = TRUE]
AddConstrs(model, rs) ==
    [model EXCEPT !.constrs = @ \o rs, !.dirty = TRUE]

(***************************************************************************)
(* Input data: what the data cell binds to I, J, b, f, C and c.  Nothing   *)
(* else is bound before the first cell runs.                               *)
(***************************************************************************)
Input(nI, nJ, bb, ff, CC, cc) ==
    /\ I = Range(nI)
    /\ J = Range(nJ)
    /\ b = bb
    /\ f = ff
    /\ C = CC
    /\ c = cc
    /\ P = << >>
    /\ l = << >>
    /\ cost = << >>
    /\ m = NoModel
    /\ pc = "data"
    /\ err = "none"
    /\ reruns = 0
    /\ depth = 0
    /\ ones = {}
    /\ closed = FALSE
    /\ incumbent = None
    /\ previous = [status |-> "LOADED", objVal |-> None]

Pairs(nI, nJ) == (0..(nI - 1)) \X (0..(nJ - 1))

\* the instance of the notebook
ExampleInput ==
    Input(3, 5, <<5, 7, 10, 14, 11>>, <<5, 11, 9>>, <<10, 20, 20>>,
          [key \in Pairs(3, 5) |->
              <<<<2, 7, 7, 8, 8>>, <<7, 2, 4, 7, 2>>, <<2, 2, 2, 4, 8>>>>
                  [key[1] + 1][key[2] + 1]])

\* 2^n
RECURSIVE Pow2(_)
Pow2(n) == IF n = 0 THEN 1 ELSE 2 * Pow2(n - 1)

\* Demands and capacities vary.  The costs are pairwise different powers of
\* two, so that two sums of costs are equal only if they sum the same costs.
GeneralInputs ==
    \E nI \in 1..MaxI, nJ \in 0..MaxJ :
        \E bb \in [1..nJ -> 1..MaxUnits], CC \in [1..nI -> 0..MaxUnits] :
            Input(nI, nJ, bb, [q \in 1..nI |-> Pow2(q - 1)], CC,
                  [key \in Pairs(nI, nJ) |-> Pow2(nI + key[1] * nJ + key[2])])

\* Tuples of any length up to one more than the ranges; a dict of connection
\* costs that lacks at most one key of I x J and holds at most one key that
\* is one past a range.
DataInputs ==
    \E nI \in 1..MaxI, nJ \in 0..MaxJ :
        \E lb \in 0..(MaxJ + 1), lf \in 0..(MaxI + 1), lC \in 0..(MaxI + 1),
           lost \in {S \in SUBSET Pairs(nI, nJ) : Cardinality(S) <= 1},
           more \in {S \in SUBSET (Pairs(nI + 1, nJ + 1) \ Pairs(nI, nJ)) :
                        Cardinality(S) <= 1} :
            Input(nI, nJ, [q \in 1..lb |-> 1], [q \in 1..lf |-> 1],
                  [q \in 1..lC |-> nJ],
                  [key \in (Pairs(nI, nJ) \ lost) \cup more |-> 1])

\* one facility of any capacity, customer sets of every size with demand 1
PoolInputs ==
    \E nJ \in 0..MaxPool :
        \E cap \in 0..nJ :
            Input(1, nJ, [q \in 1..nJ |-> 1], <<1>>, <<cap>>,
                  [key \in Pairs(1, nJ) |-> Pow2(key[2] + 1)])

solver == <<depth, ones, closed, incumbent, previous>>
data == <<I, J, b, f, C, c>>

(***************************************************************************)
(* The cells.                                                              *)
(***************************************************************************)
\* the data cell: P is built, then the asserts run
DataCell ==
    /\ pc = "data"
    /\ P' = PowerSet(J)
    /\ IF ChecksPass
       THEN pc' = "model" /\ err' = err
       ELSE pc' = "error" /\ err' = "AssertionError"
    /\ UNCHANGED <<data, l, cost, m, reruns, solver>>

ModelCell ==
    /\ pc = "model"
    /\ m' = NewModel
    /\ pc' = "vars"
    /\ UNCHANGED <<data, P, l, cost, err, reruns, solver>>

VarsCell ==
    /\ pc = "vars"
    /\ l' = VarsOf(m)
    /\ m' = [m EXCEPT !.numVars = @ + Len(I) * Len(P),
                      !.obj = [col \in 0..(m.numVars + Len(I) * Len(P) - 1) |-> 0]]
    /\ pc' = "cost"
    /\ UNCHANGED <<data, P, cost, err, reruns, solver>>

CostCell ==
    /\ pc = "cost"
    /\ IF KeyMissing
       THEN cost' = cost /\ pc' = "error" /\ err' = "KeyError"
       ELSE /\ cost' = [key \in Keys |-> CostOf(key[1], key[2])]
            /\ pc' = "objective"
            /\ err' = err
    /\ UNCHANGED <<data, P, l, m, reruns, solver>>

ObjectiveCell ==
    /\ pc = "objective"
    /\ m' = [m EXCEPT !.obj = Objective]
    /\ pc' = "consA"
    /\ UNCHANGED <<data, P, l, cost, err, reruns, solver>>

CapacityCell ==
    /\ pc = "consA"
    /\ m' = AddConstrs(m, CapacityRows)
    /\ pc' = "consB"
    /\ UNCHANGED <<data, P, l, cost, err, reruns, solver>>

OnePatternCell ==
    /\ pc = "consB"
    /\ m' = AddConstrs(m, OnePatternRows)
    /\ pc' = "consC"
    /\ UNCHANGED <<data, P, l, cost, err, reruns, solver>>

CoverageCell ==
    /\ pc = "consC"
    /\ m' = AddConstrs(m, CoverageRows)
    /\ pc' = "optimize"
    /\ UNCHANGED <<data, P, l, cost, err, reruns, solver>>

\* a constraint cell run again, on the model as it is, once the notebook has run
Again(rs) ==
    /\ pc = "idle"
    /\ reruns < MaxReruns
    /\ m' = AddConstrs(m, rs)
    /\ reruns' = reruns + 1
    /\ UNCHANGED <<data, P, l, cost, pc, err, solver>>

CapacityCellAgain == Again(CapacityRows)

OnePatternCellAgain == Again(OnePatternRows)

CoverageCellAgain == Again(CoverageRows)

(***************************************************************************)
(* optimize.  The solver is a depth-first branch and bound over the        *)
(* columns in index order: a column is tried at 1, then at 0; a node is    *)
(* cut when a constraint can no longer hold; a leaf that satisfies every   *)
(* constraint replaces the incumbent when it is cheaper.                   *)
(***************************************************************************)
\* left-hand side of a constraint under the columns set to 1
Lhs(row, xs) == Cardinality({col \in xs : col \in row.cols})

\* columns of a constraint not decided yet
Open(row, d) == Cardinality({col \in row.cols : col >= d})

Cut(d, xs) ==
    \E q \in DOMAIN m.constrs :
        LET row == m.constrs[q]
            lhs == Lhs(row, xs)
        IN  \/ lhs > row.rhs
            \/ lhs < row.rhs /\ lhs + Open(row, d) < row.rhs

\* every constraint of the model holds
Satisfies(xs) ==
    \A q \in DOMAIN m.constrs : Lhs(m.constrs[q], xs) = m.constrs[q].rhs

\* objective value of an assignment
Value(xs) == SumOver(xs, m.obj)

\* a node is closed when every column is decided or a constraint cuts it
Closed(d, xs) == d = m.numVars \/ Cut(d, xs)

Improved ==
    IF depth = m.numVars /\ Satisfies(ones)
       /\ (incumbent = None \/ Value(ones) < incumbent)
    THEN Value(ones)
    ELSE incumbent

\* m.update(); m.optimize()
OptimizeCell ==
    /\ (pc = "optimize" \/ (pc = "idle" /\ m.dirty)) = TRUE
    /\ m' = [m EXCEPT !.dirty = FALSE]
    /\ previous' = [status |-> m.status, objVal |-> m.objVal]
    /\ depth' = 0
    /\ ones' = {}
    /\ closed' = Closed(0, {})
    /\ incumbent' = None
    /\ pc' = "solving"
    /\ UNCHANGED <<data, P, l, cost, err, reruns>>

Descend ==
    /\ pc = "solving"
    /\ ~closed
    /\ ones' = ones \cup {depth}
    /\ depth' = depth + 1
    /\ closed' = Closed(depth + 1, ones \cup {depth})
    /\ UNCHANGED <<data, P, l, cost, m, pc, err, reruns, incumbent, previous>>

Backtrack ==
    /\ pc = "solving"
    /\ closed
    /\ ones # {}
    /\ incumbent' = Improved
    /\ ones' = ones \ {Max(ones)}
    /\ depth' = Max(ones) + 1
    /\ closed' = Closed(Max(ones) + 1, ones \ {Max(ones)})
    /\ UNCHANGED <<data, P, l, cost, m, pc, err, reruns, previous>>

Finish ==
    /\ pc = "solving"
    /\ closed
    /\ ones = {}
    /\ m' = [m EXCEPT !.status = IF Improved = None THEN "INFEASIBLE" ELSE "OPTIMAL",
                      !.objVal = Improved]
    /\ incumbent' = None
    /\ depth' = 0
    /\ closed' = FALSE
    /\ pc' = "idle"
    /\ UNCHANGED <<data, P, l, cost, err, reruns, ones, previous>>

\* the notebook run once, cell after cell
Run ==
    \/ DataCell
    \/ ModelCell
    \/ VarsCell
    \/ CostCell
    \/ ObjectiveCell
    \/ CapacityCell
    \/ OnePatternCell
    \/ CoverageCell
    \/ OptimizeCell
    \/ Descend
    \/ Backtrack
    \/ Finish

\* the constraint cells and optimize run again afterwards
RunAgain ==
    \/ Run
    \/ CapacityCellAgain
    \/ OnePatternCellAgain
    \/ CoverageCellAgain

Spec == GeneralInputs /\ [][Run]_vars
SpecData == (DataInputs \/ PoolInputs) /\ [][Run]_vars
SpecExample == ExampleInput /\ [][Run]_vars
SpecAgain == (ExampleInput \/ PoolInputs) /\ [][RunAgain]_vars

(***************************************************************************)
(* What the properties are stated with.                                    *)
(***************************************************************************)
\* the patterns are built
DataRun == pc # "data"

\* the objective is set
ObjectiveSet == pc \in {"consA", "consB", "consC", "optimize", "solving", "idle"}

\* the search stands at a full 0/1 assignment that satisfies every constraint
FeasibleLeaf == pc = "solving" /\ depth = m.numVars /\ Satisfies(ones)

\* the keys (i, p) whose variable is 1
Picked == {key \in DOMAIN l : l[key] \in ones}

\* the customers facility i serves
Served(i) == UNION {Elems(key[2]) : key \in {k \in Picked : k[1] = i}}

\* total demand of a set of customers
Demand(S) == SumOver(S, [j \in S |-> b[j + 1]])

\* sum of the connection costs from facility i to a set of customers
Connection(i, S) == SumOver(S, [j \in S |-> c[<<i, j>>]])

\* an assignment of every customer to one facility, within every capacity
Assignable ==
    \E a \in [Elems(J) -> Elems(I)] :
        \A i \in Elems(I) : Demand({j \in Elems(J) : a[j] = i}) <= C[i + 1]

TotalCapacity == SumOver(DOMAIN C, C)

TotalDemand == SumOver(DOMAIN b, b)

\* the input breaks one of the rules of the data
Malformed ==
    \/ Len(J) # Len(b)
    \/ Len(I) # Len(f)
    \/ Len(I) # Len(C)
    \/ \E i \in Elems(I), j \in Elems(J) : <<i, j>> \notin DOMAIN c

IsExample == Len(I) = 3 /\ Len(J) = 5

\* rows of one pass over the three constraint cells
FirstPass ==
    Cardinality({key \in DOMAIN l : Demand(Elems(key[2])) > C[key[1] + 1]})
        + Len(I) + Len(J)

Nonzeros == SumOver(DOMAIN m.constrs,
                    [q \in DOMAIN m.constrs |-> Cardinality(m.constrs[q].cols)])

(***************************************************************************)
(* C1.  On the instance of the notebook the minimum of the objective over  *)
(* the 0/1 assignments that satisfy every constraint is 42: optimize ends  *)
(* OPTIMAL with objective 42 and no feasible assignment is cheaper.        *)
(***************************************************************************)
C1_OptimumIs42 ==
    /\ pc = "idle" => m.status = "OPTIMAL" /\ m.objVal = 42
    /\ FeasibleLeaf => Value(ones) >= 42

\* a feasible assignment with objective 42
C1_Witness == FeasibleLeaf /\ IsExample /\ Value(ones) = 42

(***************************************************************************)
(* C2.  In every feasible solution each customer is in the pattern of      *)
(* exactly one variable at 1 and each facility has exactly one variable at *)
(* 1, so the patterns chosen are pairwise disjoint and their union is J.   *)
(***************************************************************************)
C2_ExactlyOnePatternEach ==
    FeasibleLeaf =>
        /\ ones = {l[key] : key \in Picked}
        /\ \A j \in Elems(J) :
              Cardinality({key \in Picked : j \in Elems(key[2])}) = 1
        /\ \A i \in Elems(I) : Cardinality({key \in Picked : key[1] = i}) = 1
        /\ \A k1, k2 \in Picked :
              k1 # k2 => Elems(k1[2]) \cap Elems(k2[2]) = {}
        /\ UNION {Elems(key[2]) : key \in Picked} = Elems(J)

\* two facilities that each serve one of two customers
C2_Witness ==
    /\ FeasibleLeaf
    /\ Len(I) = 2 /\ Len(J) = 2
    /\ \A i \in Elems(I) : Cardinality(Served(i)) = 1

(***************************************************************************)
(* C3.  After the capacity cell the model holds a constraint l[i,p] == 0   *)
(* for exactly the pairs whose demand sum exceeds C[i]: none for a sum     *)
(* equal to the capacity, none for the empty pattern.                      *)
(***************************************************************************)
C3_FixedIffOverCapacity ==
    pc = "consB" =>
        /\ \A key \in DOMAIN l :
              (Demand(Elems(key[2])) > C[key[1] + 1])
                  <=> (\E q \in DOMAIN m.constrs :
                          m.constrs[q] = [cols |-> {l[key]}, rhs |-> 0])
        /\ \A q \in DOMAIN m.constrs :
              \E key \in DOMAIN l : m.constrs[q] = [cols |-> {l[key]}, rhs |-> 0]

\* a pair over the capacity, a non-empty pair exactly at the capacity
C3_Witness ==
    /\ pc = "consB"
    /\ \E key \in DOMAIN l : Demand(Elems(key[2])) > C[key[1] + 1]
    /\ \E key \in DOMAIN l :
          key[2] # << >> /\ Demand(Elems(key[2])) = C[key[1] + 1]

(***************************************************************************)
(* C4.  In every feasible solution the total demand of the customers       *)
(* assigned to a facility is at most its capacity.                         *)
(***************************************************************************)
C4_WithinCapacity ==
    FeasibleLeaf => \A i \in Elems(I) : Demand(Served(i)) <= C[i + 1]

\* a facility filled to its capacity by two customers, another with room left
C4_Witness ==
    /\ FeasibleLeaf
    /\ \E i \in Elems(I) :
          Cardinality(Served(i)) = 2 /\ Demand(Served(i)) = C[i + 1]
    /\ \E i \in Elems(I) : Demand(Served(i)) < C[i + 1]

(***************************************************************************)
(* C5.  P holds 2^n patterns, every subset of J exactly once, the empty    *)
(* pattern first, sizes never decreasing from 0 to n; P stays the same     *)
(* sequence for every later cell.                                          *)
(***************************************************************************)
C5_PowerSetInOrder ==
    /\ [](DataRun =>
            /\ Len(P) = Pow2(Len(J))
            /\ \A S \in SUBSET Elems(J) :
                  Cardinality({q \in DOMAIN P :
                      Elems(P[q]) = S /\ Len(P[q]) = Cardinality(S)}) = 1
            /\ P[1] = << >>
            /\ Len(P[Len(P)]) = Len(J)
            /\ \A q \in 1..(Len(P) - 1) : Len(P[q]) <= Len(P[q + 1]))
    /\ [][DataRun => P' = P]_vars

\* the 16 patterns of four customers, read by the capacity cell
C5_Witness == pc = "consB" /\ Len(J) = 4 /\ Len(P) = 16

(***************************************************************************)
(* C6.  cost[i,p] is 0 for the empty pattern and f[i] plus the connection  *)
(* costs from i to the customers of p otherwise, and it is the objective   *)
(* coefficient of l[i,p].                                                  *)
(***************************************************************************)
C6_PatternCost ==
    /\ pc \notin {"data", "model", "vars", "cost", "error"} =>
          /\ DOMAIN cost = Elems(I) \X Elems(P)
          /\ \A key \in DOMAIN cost :
                cost[key] = IF key[2] = << >> THEN 0
                            ELSE f[key[1] + 1] + Connection(key[1], Elems(key[2]))
    /\ ObjectiveSet =>
          /\ DOMAIN m.obj = {l[key] : key \in DOMAIN l}
          /\ \A key \in DOMAIN l : m.obj[l[key]] = cost[key]

\* two facilities and two customers, the objective set
C6_Witness ==
    /\ pc = "consA" /\ Len(I) = 2 /\ Len(J) = 2
    /\ cost[<<1, << >> >>] = 0
    /\ m.obj[l[<<1, <<0, 1>> >>]] = f[2] + c[<<1, 0>>] + c[<<1, 1>>]

(***************************************************************************)
(* C7.  A run on malformed input (a tuple of the wrong length, or no       *)
(* connection cost for some pair of I x J) fails on the data check: the    *)
(* model is never constructed and optimize is never reached.               *)
(***************************************************************************)
C7_MalformedStopsBeforeModel ==
    Malformed =>
        /\ ~m.created
        /\ pc # "solving"
        /\ pc = "error" => err = "AssertionError"

(***************************************************************************)
(* C8.  As claimed: when the checks pass and the total capacity is at      *)
(* least the total demand, the built model is feasible.                    *)
(***************************************************************************)
C8_FeasibleWhenCapacityCoversDemand ==
    pc = "idle" /\ TotalCapacity >= TotalDemand => m.status = "OPTIMAL"

(***************************************************************************)
(* C8, amended.  The built model is feasible exactly when the customers    *)
(* can be assigned to the facilities with every facility's demand within   *)
(* its capacity; a total capacity of at least the total demand is needed   *)
(* for that, and is not enough.                                            *)
(***************************************************************************)
C8_FeasibleIffAssignable ==
    pc = "idle" =>
        /\ m.status \in {"OPTIMAL", "INFEASIBLE"}
        /\ m.status = "OPTIMAL" <=> Assignable
        /\ m.status = "OPTIMAL" => TotalCapacity >= TotalDemand

\* two customers split over two facilities, neither of which could serve both
C8_Witness ==
    /\ pc = "idle" /\ m.status = "OPTIMAL"
    /\ Len(I) = 2 /\ Len(J) = 2
    /\ \A i \in Elems(I) : C[i + 1] < TotalDemand

(***************************************************************************)
(* C9.  In every feasible solution the objective value is the opening cost *)
(* of the facilities that serve somebody plus, for every customer, the     *)
(* connection cost from the one facility that serves it.                   *)
(***************************************************************************)
C9_ObjectiveIsAssignmentCost ==
    FeasibleLeaf =>
        LET open == {i \in Elems(I) : Served(i) # {}}
            server == [j \in Elems(J) |->
                          CHOOSE i \in Elems(I) : j \in Served(i)]
        IN  /\ \A j \in Elems(J) : j \in Served(server[j])
            /\ Value(ones) =
                  SumOver(open, [i \in open |-> f[i + 1]])
                  + SumOver(Elems(J), [j \in Elems(J) |-> c[<<server[j], j>>]])

\* one facility serves both customers, the other stays closed
C9_Witness ==
    /\ FeasibleLeaf
    /\ Len(I) = 2 /\ Len(J) = 2
    /\ \E i \in Elems(I) : Served(i) = {}
    /\ Value(ones) > 0

(***************************************************************************)
(* C10.  Running constraint cells again only adds copies of constraints    *)
(* the model already holds: the assignments that satisfy the model are     *)
(* those that satisfy the rows of the first pass, and optimize ends as it  *)
(* ended before.  On the instance of the notebook one pass gives 76 rows   *)
(* and the recorded run (B and C once more) 84 rows with optimum 42.       *)
(***************************************************************************)
C10_RerunsOnlyDuplicate ==
    /\ pc \in {"optimize", "idle"} =>
          /\ Len(m.constrs) >= FirstPass
          /\ reruns = 0 => Len(m.constrs) = FirstPass
          /\ \A q \in DOMAIN m.constrs :
                \E q0 \in 1..FirstPass : m.constrs[q0] = m.constrs[q]
          /\ IsExample => FirstPass = 76 /\ m.numVars = 96
    /\ pc = "solving" /\ depth = m.numVars =>
          (Satisfies(ones) <=>
              \A q \in 1..FirstPass :
                  Lhs(m.constrs[q], ones) = m.constrs[q].rhs)
    /\ pc = "idle" =>
          /\ previous.status # "LOADED" =>
                m.status = previous.status /\ m.objVal = previous.objVal
          /\ IsExample => m.objVal = 42

\* the recorded run: 84 rows, 96 columns, 740 nonzeros, optimum 42 as before
C10_Witness ==
    /\ IsExample /\ pc = "idle" /\ ~m.dirty
    /\ Len(m.constrs) = 84 /\ m.numVars = 96 /\ Nonzeros = 740
    /\ previous.objVal = 42 /\ m.objVal = 42

====
